---- MODULE Spec2Model ----
(***************************************************************************)
(* Sysfs interface of the power supply class                              *)
(* (drivers/power/supply/power_supply_sysfs.c): the attribute catalog,    *)
(* the show/store handlers, the visibility callback and the uevent        *)
(* builder, as a state machine over one power supply.                     *)
(*                                                                         *)
(* Build configuration modelled: the catalog entries that are compiled    *)
(* in every configuration (those outside any #ifdef of lines 188-381).    *)
(* The conditionally compiled entries are all plain `int' properties and  *)
(* take the same branch of the handlers as `present'.                     *)
(*                                                                         *)
(* Text is a sequence of one-character strings, so that formatting,       *)
(* parsing, case mapping and byte counts are computed, not assumed.       *)
(***************************************************************************)
EXTENDS Integers, Sequences, FiniteSets, TLC

VARIABLES
  registered,    \* dev_get_drvdata(dev) and psy->desc are set
  properties,    \* psy->desc->properties[0 .. num_properties-1]
  desc_type,     \* psy->desc->type
  is_writeable,  \* psy->desc->property_is_writeable: "NULL" or its answers
  last,          \* record of the last completed attribute call
  u_pc,          \* position of power_supply_uevent
  u_j,           \* its loop counter j
  u_ret,         \* its local ret
  u_env,         \* the kobj_uevent_env it fills
  u_reads        \* what each iteration read (history of the call)

vars == <<registered, properties, desc_type, is_writeable, last,
          u_pc, u_j, u_ret, u_env, u_reads>>

----------------------------------------------------------------------------
(* Bounds of the model *)

\* width in bits of `int' (the intval member); `long', `long long' and
\* the int64val member are twice as wide
INT_BITS == 5

\* longest properties[] array a device declares
MaxProps == 2

\* bytes of the uevent buffer that add_uevent_var fills
UEVENT_BUFFER_SIZE == 80

Pow2(n) == 2 ^ n
INT_MIN == 0 - Pow2(INT_BITS - 1)
INT_MAX == Pow2(INT_BITS - 1) - 1
LONG_MIN == 0 - Pow2(2 * INT_BITS - 1)
LONG_MAX == Pow2(2 * INT_BITS - 1) - 1

----------------------------------------------------------------------------
(* errno values *)

EAGAIN == 11
ENOMEM == 12
EACCES == 13
ENODEV == 19
EINVAL == 22
ERANGE == 34
ENODATA == 61

----------------------------------------------------------------------------
(* Characters and text *)

Lower == <<"a","b","c","d","e","f","g","h","i","j","k","l","m",
           "n","o","p","q","r","s","t","u","v","w","x","y","z">>
Upper == <<"A","B","C","D","E","F","G","H","I","J","K","L","M",
           "N","O","P","Q","R","S","T","U","V","W","X","Y","Z">>
Digit == <<"0","1","2","3","4","5","6","7","8","9">>
NL == "\n"

toupper(c) ==
  IF \E i \in 1..26 : Lower[i] = c
  THEN Upper[CHOOSE i \in 1..26 : Lower[i] = c]
  ELSE c

tolower(c) ==
  IF \E i \in 1..26 : Upper[i] = c
  THEN Lower[CHOOSE i \in 1..26 : Upper[i] = c]
  ELSE c

strtoupper(s) == [i \in 1..Len(s) |-> toupper(s[i])]

strtolower(s) == [i \in 1..Len(s) |-> tolower(s[i])]

Range(s) == {s[i] : i \in 1..Len(s)}

----------------------------------------------------------------------------
(* The enum tables, lines 43-75 *)

power_supply_type_text ==
  << <<"U","n","k","n","o","w","n">>,
     <<"B","a","t","t","e","r","y">>,
     <<"U","P","S">>,
     <<"M","a","i","n","s">>,
     <<"U","S","B">>,
     <<"U","S","B","_","D","C","P">>,
     <<"U","S","B","_","C","D","P">>,
     <<"U","S","B","_","A","C","A">>,
     <<"W","i","r","e","l","e","s","s">>,
     <<"U","S","B","_","C">>,
     <<"U","S","B","_","P","D">>,
     <<"U","S","B","_","P","D","_","D","R","P">>,
     <<"B","r","i","c","k","I","D">> >>

power_supply_status_text ==
  << <<"U","n","k","n","o","w","n">>,
     <<"C","h","a","r","g","i","n","g">>,
     <<"D","i","s","c","h","a","r","g","i","n","g">>,
     <<"N","o","t"," ","c","h","a","r","g","i","n","g">>,
     <<"F","u","l","l">>,
     <<"C","m","d"," ","d","i","s","c","h","a","r","g","i","n","g">> >>

power_supply_charge_type_text ==
  << <<"U","n","k","n","o","w","n">>,
     <<"N","/","A">>,
     <<"T","r","i","c","k","l","e">>,
     <<"F","a","s","t">> >>

power_supply_health_text ==
  << <<"U","n","k","n","o","w","n">>,
     <<"G","o","o","d">>,
     <<"O","v","e","r","h","e","a","t">>,
     <<"D","e","a","d">>,
     <<"O","v","e","r"," ","v","o","l","t","a","g","e">>,
     <<"U","n","s","p","e","c","i","f","i","e","d"," ","f","a","i","l","u","r","e">>,
     <<"C","o","l","d">>,
     <<"W","a","t","c","h","d","o","g"," ","t","i","m","e","r"," ","e","x","p","i","r","e">>,
     <<"S","a","f","e","t","y"," ","t","i","m","e","r"," ","e","x","p","i","r","e">> >>

power_supply_technology_text ==
  << <<"U","n","k","n","o","w","n">>,
     <<"N","i","M","H">>,
     <<"L","i","-","i","o","n">>,
     <<"L","i","-","p","o","l","y">>,
     <<"L","i","F","e">>,
     <<"N","i","C","d">>,
     <<"L","i","M","n">> >>

power_supply_capacity_level_text ==
  << <<"U","n","k","n","o","w","n">>,
     <<"C","r","i","t","i","c","a","l">>,
     <<"L","o","w">>,
     <<"N","o","r","m","a","l">>,
     <<"H","i","g","h">>,
     <<"F","u","l","l">> >>

power_supply_scope_text ==
  << <<"U","n","k","n","o","w","n">>,
     <<"S","y","s","t","e","m">>,
     <<"D","e","v","i","c","e">> >>

----------------------------------------------------------------------------
(* The catalog, lines 188-381: power_supply_attrs[off].attr.name.         *)
(* Sequences are 1-based: the entry of offset off is element off + 1.     *)

power_supply_attrs ==
  << <<"s","t","a","t","u","s">>,
     <<"c","h","a","r","g","e","_","t","y","p","e">>,
     <<"h","e","a","l","t","h">>,
     <<"p","r","e","s","e","n","t">>,
     <<"o","n","l","i","n","e">>,
     <<"a","u","t","h","e","n","t","i","c">>,
     <<"t","e","c","h","n","o","l","o","g","y">>,
     <<"c","y","c","l","e","_","c","o","u","n","t">>,
     <<"v","o","l","t","a","g","e","_","m","a","x">>,
     <<"v","o","l","t","a","g","e","_","m","i","n">>,
     <<"v","o","l","t","a","g","e","_","m","a","x","_","d","e","s","i","g","n">>,
     <<"v","o","l","t","a","g","e","_","m","i","n","_","d","e","s","i","g","n">>,
     <<"v","o","l","t","a","g","e","_","n","o","w">>,
     <<"v","o","l","t","a","g","e","_","a","v","g">>,
     <<"v","o","l","t","a","g","e","_","o","c","v">>,
     <<"v","o","l","t","a","g","e","_","b","o","o","t">>,
     <<"c","u","r","r","e","n","t","_","m","a","x">>,
     <<"c","u","r","r","e","n","t","_","n","o","w">>,
     <<"c","u","r","r","e","n","t","_","a","v","g">>,
     <<"c","u","r","r","e","n","t","_","b","o","o","t">>,
     <<"p","o","w","e","r","_","n","o","w">>,
     <<"p","o","w","e","r","_","a","v","g">>,
     <<"c","h","a","r","g","e","_","f","u","l","l","_","d","e","s","i","g","n">>,
     <<"c","h","a","r","g","e","_","e","m","p","t","y","_","d","e","s","i","g","n">>,
     <<"c","h","a","r","g","e","_","f","u","l","l">>,
     <<"c","h","a","r","g","e","_","e","m","p","t","y">>,
     <<"c","h","a","r","g","e","_","n","o","w">>,
     <<"c","h","a","r","g","e","_","a","v","g">>,
     <<"c","h","a","r","g","e","_","c","o","u","n","t","e","r">>,
     <<"c","o","n","s","t","a","n","t","_","c","h","a","r","g","e","_","c","u","r","r","e","n","t">>,
     <<"c","o","n","s","t","a","n","t","_","c","h","a","r","g","e","_","c","u","r","r","e","n","t","_","m","a","x">>,
     <<"c","o","n","s","t","a","n","t","_","c","h","a","r","g","e","_","v","o","l","t","a","g","e">>,
     <<"c","o","n","s","t","a","n","t","_","c","h","a","r","g","e","_","v","o","l","t","a","g","e","_","m","a","x">>,
     <<"c","h","a","r","g","e","_","c","o","n","t","r","o","l","_","l","i","m","i","t">>,
     <<"c","h","a","r","g","e","_","c","o","n","t","r","o","l","_","l","i","m","i","t","_","m","a","x">>,
     <<"i","n","p","u","t","_","c","u","r","r","e","n","t","_","l","i","m","i","t">>,
     <<"e","n","e","r","g","y","_","f","u","l","l","_","d","e","s","i","g","n">>,
     <<"e","n","e","r","g","y","_","e","m","p","t","y","_","d","e","s","i","g","n">>,
     <<"e","n","e","r","g","y","_","f","u","l","l">>,
     <<"e","n","e","r","g","y","_","e","m","p","t","y">>,
     <<"e","n","e","r","g","y","_","n","o","w">>,
     <<"e","n","e","r","g","y","_","a","v","g">>,
     <<"c","a","p","a","c","i","t","y">>,
     <<"c","a","p","a","c","i","t","y","_","a","l","e","r","t","_","m","i","n">>,
     <<"c","a","p","a","c","i","t","y","_","a","l","e","r","t","_","m","a","x">>,
     <<"c","a","p","a","c","i","t","y","_","l","e","v","e","l">>,
     <<"t","e","m","p">>,
     <<"t","e","m","p","_","m","a","x">>,
     <<"t","e","m","p","_","m","i","n">>,
     <<"t","e","m","p","_","a","l","e","r","t","_","m","i","n">>,
     <<"t","e","m","p","_","a","l","e","r","t","_","m","a","x">>,
     <<"t","e","m","p","_","a","m","b","i","e","n","t">>,
     <<"t","e","m","p","_","a","m","b","i","e","n","t","_","a","l","e","r","t","_","m","i","n">>,
     <<"t","e","m","p","_","a","m","b","i","e","n","t","_","a","l","e","r","t","_","m","a","x">>,
     <<"t","i","m","e","_","t","o","_","e","m","p","t","y","_","n","o","w">>,
     <<"t","i","m","e","_","t","o","_","e","m","p","t","y","_","a","v","g">>,
     <<"t","i","m","e","_","t","o","_","f","u","l","l","_","n","o","w">>,
     <<"t","i","m","e","_","t","o","_","f","u","l","l","_","a","v","g">>,
     <<"t","y","p","e">>,
     <<"s","c","o","p","e">>,
     <<"p","r","e","c","h","a","r","g","e","_","c","u","r","r","e","n","t">>,
     <<"c","h","a","r","g","e","_","t","e","r","m","_","c","u","r","r","e","n","t">>,
     <<"c","a","l","i","b","r","a","t","e">>,
     <<"u","s","b","_","h","c">>,
     <<"u","s","b","_","o","t","g">>,
     <<"c","h","a","r","g","e","_","e","n","a","b","l","e","d">>,
     <<"c","h","a","r","g","e","_","c","o","u","n","t","e","r","_","e","x","t">>,
     <<"f","l","a","s","h","l","i","g","h","t","_","t","e","m","p">>,
     <<"m","o","d","e","l","_","n","a","m","e">>,
     <<"m","a","n","u","f","a","c","t","u","r","e","r">>,
     <<"s","e","r","i","a","l","_","n","u","m","b","e","r">> >>

ARRAY_SIZE(a) == Len(a)

\* Offsets of the entries the handlers name ("Must be in the same order
\* as POWER_SUPPLY_PROP_*", line 187)
POWER_SUPPLY_PROP_STATUS == 0
POWER_SUPPLY_PROP_CHARGE_TYPE == 1
POWER_SUPPLY_PROP_HEALTH == 2
POWER_SUPPLY_PROP_PRESENT == 3
POWER_SUPPLY_PROP_TECHNOLOGY == 6
POWER_SUPPLY_PROP_CAPACITY == 42
POWER_SUPPLY_PROP_CAPACITY_LEVEL == 45
POWER_SUPPLY_PROP_TYPE == 58
POWER_SUPPLY_PROP_SCOPE == 59
POWER_SUPPLY_PROP_CHARGE_COUNTER_EXT == 66
POWER_SUPPLY_PROP_MODEL_NAME == 68

attr_name(off) == power_supply_attrs[off + 1]

----------------------------------------------------------------------------
(* C integer conversions *)

\* conversion of a long to int (value.intval = ret, line 178)
TruncInt(x) == ((x - INT_MIN) % Pow2(INT_BITS)) + INT_MIN

\* the int64val member of a union whose low word is intval and whose
\* high word is hi (arm64, little-endian)
Int64Of(value) == value.hi * Pow2(INT_BITS) + (value.intval % Pow2(INT_BITS))

RECURSIVE DecNat(_)
DecNat(n) ==
  IF n < 10 THEN <<Digit[n + 1]>>
  ELSE DecNat(n \div 10) \o <<Digit[(n % 10) + 1]>>

\* sprintf "%d" and "%lld"
sprintf_d(n) == IF n < 0 THEN <<"-">> \o DecNat(0 - n) ELSE DecNat(n)

IsDigit(c) == \E i \in 1..10 : Digit[i] = c
DigitVal(c) == (CHOOSE i \in 1..10 : Digit[i] = c) - 1

RECURSIVE NatOf(_)
NatOf(ds) ==
  IF ds = <<>> THEN 0
  ELSE 10 * NatOf(SubSeq(ds, 1, Len(ds) - 1)) + DigitVal(ds[Len(ds)])

\* the text without one trailing newline
StripNL(s) ==
  IF Len(s) > 0 /\ s[Len(s)] = NL THEN SubSeq(s, 1, Len(s) - 1) ELSE s

\* kstrtol(buf, 10, &long_val) (lib/kstrtox.c): an optional sign, decimal
\* digits, an optional newline; the value must fit a long
kstrtol(s) ==
  LET signed == Len(s) > 0 /\ s[1] \in {"-", "+"}
      body == StripNL(IF signed THEN SubSeq(s, 2, Len(s)) ELSE s)
      n == NatOf(body)
      v == IF signed /\ s[1] = "-" THEN 0 - n ELSE n
  IN IF body = <<>> \/ \E i \in 1..Len(body) : ~IsDigit(body[i])
     THEN [rc |-> 0 - EINVAL, val |-> 0]
     ELSE IF v < LONG_MIN \/ v > LONG_MAX
     THEN [rc |-> 0 - ERANGE, val |-> 0]
     ELSE [rc |-> 0, val |-> v]

\* sysfs_match_string(array, buf) (lib/string.c): the index of the first
\* entry that matches buf, -EINVAL when none does.  The match is the
\* decode step of the value codec: exact up to letter case, a trailing
\* newline of the written text not counting.
sysfs_match_string(array, buf) ==
  LET hit(i) == strtolower(array[i]) = strtolower(StripNL(buf))
  IN IF \E i \in 1..Len(array) : hit(i)
     THEN (CHOOSE i \in 1..Len(array) :
             hit(i) /\ \A k \in 1..(i - 1) : ~hit(k)) - 1
     ELSE 0 - EINVAL

----------------------------------------------------------------------------
(* power_supply_show_property, lines 77-130 *)

\* what the failure branch logs, lines 90-98
show_log(ret) ==
  IF ret = 0 - ENODATA THEN "dev_dbg"
  ELSE IF ret # 0 - ENODEV /\ ret # 0 - EAGAIN THEN "dev_err_ratelimited"
  ELSE "none"

\* sprintf(buf, "%s\n", table[value.intval]): the tables are indexed
\* without a range check.  An index outside the table is undefined
\* behaviour: ub is what the build then does, a fault or some other text.
show_enum(table, intval, ub) ==
  IF intval >= 0 /\ intval < ARRAY_SIZE(table)
  THEN [ret |-> Len(table[intval + 1]) + 1, buf |-> table[intval + 1] \o <<NL>>,
        log |-> "none", fault |-> FALSE,
        lookup |-> TRUE, idx |-> intval, len |-> ARRAY_SIZE(table)]
  ELSE IF ub.fault
  THEN [ret |-> 0, buf |-> <<>>, log |-> "none", fault |-> TRUE,
        lookup |-> TRUE, idx |-> intval, len |-> ARRAY_SIZE(table)]
  ELSE [ret |-> Len(ub.text) + 1, buf |-> ub.text \o <<NL>>,
        log |-> "none", fault |-> FALSE,
        lookup |-> TRUE, idx |-> intval, len |-> ARRAY_SIZE(table)]

show_text(text) ==
  [ret |-> Len(text) + 1, buf |-> text \o <<NL>>, log |-> "none",
   fault |-> FALSE, lookup |-> FALSE, idx |-> 0, len |-> 0]

\* off: attr - power_supply_attrs; type: psy->desc->type; g: what
\* power_supply_get_property returns, [rc, val]; ub: see show_enum
power_supply_show_property(off, type, g, ub) ==
  LET value == IF off = POWER_SUPPLY_PROP_TYPE THEN type ELSE g.val
  IN IF off # POWER_SUPPLY_PROP_TYPE /\ g.rc < 0
     THEN [ret |-> g.rc, buf |-> <<>>, log |-> show_log(g.rc),
           fault |-> FALSE, lookup |-> FALSE, idx |-> 0, len |-> 0]
     ELSE IF off = POWER_SUPPLY_PROP_STATUS
     THEN show_enum(power_supply_status_text, value, ub)
     ELSE IF off = POWER_SUPPLY_PROP_CHARGE_TYPE
     THEN show_enum(power_supply_charge_type_text, value, ub)
     ELSE IF off = POWER_SUPPLY_PROP_HEALTH
     THEN show_enum(power_supply_health_text, value, ub)
     ELSE IF off = POWER_SUPPLY_PROP_TECHNOLOGY
     THEN show_enum(power_supply_technology_text, value, ub)
     ELSE IF off = POWER_SUPPLY_PROP_CAPACITY_LEVEL
     THEN show_enum(power_supply_capacity_level_text, value, ub)
     ELSE IF off = POWER_SUPPLY_PROP_TYPE
     THEN show_enum(power_supply_type_text, value, ub)
     ELSE IF off = POWER_SUPPLY_PROP_SCOPE
     THEN show_enum(power_supply_scope_text, value, ub)
     ELSE IF off >= POWER_SUPPLY_PROP_MODEL_NAME
     THEN show_text(value)
     ELSE show_text(sprintf_d(value))

----------------------------------------------------------------------------
(* power_supply_store_property, lines 132-185 *)

\* the switch with the case of scope left out
store_match_without_scope(off, buf) ==
  CASE off = POWER_SUPPLY_PROP_STATUS ->
         sysfs_match_string(power_supply_status_text, buf)
    [] off = POWER_SUPPLY_PROP_CHARGE_TYPE ->
         sysfs_match_string(power_supply_charge_type_text, buf)
    [] off = POWER_SUPPLY_PROP_HEALTH ->
         sysfs_match_string(power_supply_health_text, buf)
    [] off = POWER_SUPPLY_PROP_TECHNOLOGY ->
         sysfs_match_string(power_supply_technology_text, buf)
    [] off = POWER_SUPPLY_PROP_CAPACITY_LEVEL ->
         sysfs_match_string(power_supply_capacity_level_text, buf)
    [] OTHER -> 0 - EINVAL

\* the switch of lines 141-162
store_match(off, buf) ==
  CASE off = POWER_SUPPLY_PROP_STATUS ->
         sysfs_match_string(power_supply_status_text, buf)
    [] off = POWER_SUPPLY_PROP_CHARGE_TYPE ->
         sysfs_match_string(power_supply_charge_type_text, buf)
    [] off = POWER_SUPPLY_PROP_HEALTH ->
         sysfs_match_string(power_supply_health_text, buf)
    [] off = POWER_SUPPLY_PROP_TECHNOLOGY ->
         sysfs_match_string(power_supply_technology_text, buf)
    [] off = POWER_SUPPLY_PROP_CAPACITY_LEVEL ->
         sysfs_match_string(power_supply_capacity_level_text, buf)
    [] off = POWER_SUPPLY_PROP_SCOPE ->
         sysfs_match_string(power_supply_scope_text, buf)
    [] OTHER -> 0 - EINVAL

\* the handler without the test of kstrtol's result
store_property_unchecked(off, buf, setrc, stack) ==
  LET m == IF off = POWER_SUPPLY_PROP_SCOPE
           THEN sysfs_match_string(power_supply_scope_text, buf)
           ELSE IF off = POWER_SUPPLY_PROP_STATUS
           THEN sysfs_match_string(power_supply_status_text, buf)
           ELSE 0 - EINVAL
      k == kstrtol(buf)
      ret == IF m < 0 THEN k.val ELSE m
  IN [ret |-> IF setrc < 0 THEN setrc ELSE Len(buf),
      set |-> << [psp |-> off, val |-> [intval |-> TruncInt(ret),
                                        hi |-> stack]] >>]

\* buf: the written text, count its length; setrc: what
\* power_supply_set_property returns; stack: the bytes of the
\* uninitialised union value that the assignment to intval leaves alone.
\* The result: the return value and the calls of the setter made.
power_supply_store_property(off, buf, setrc, stack) ==
  LET m == store_match(off, buf)
      k == kstrtol(buf)
      ret == IF m < 0 THEN k.val ELSE m
      value == [intval |-> TruncInt(ret), hi |-> stack]
  IN IF m < 0 /\ k.rc < 0
     THEN [ret |-> k.rc, set |-> <<>>]
     ELSE [ret |-> IF setrc < 0 THEN setrc ELSE Len(buf),
           set |-> << [psp |-> off, val |-> value] >>]

----------------------------------------------------------------------------
(* power_supply_attr_is_visible, lines 386-411 *)

S_IRUGO == {"S_IRUSR", "S_IRGRP", "S_IROTH"}

\* the answer of psy->desc->property_is_writeable(psy, property); wr.null
\* says that the driver sets no such callback
property_is_writeable(wr, property) == wr.ans[property]

\* the callback without the early return for the type attribute
attr_is_visible_listed_only(props, wr, attrno) ==
  IF \E i \in 1..Len(props) : props[i] = attrno
  THEN IF ~wr.null /\ property_is_writeable(wr, attrno) > 0
       THEN S_IRUGO \cup {"S_IWUSR"}
       ELSE S_IRUGO
  ELSE {}

\* the callback with the predicate's answer tested for >= 0
attr_is_visible_nonnegative(props, wr, attrno) ==
  IF attrno = POWER_SUPPLY_PROP_TYPE THEN S_IRUGO
  ELSE IF \E i \in 1..Len(props) : props[i] = attrno
  THEN IF ~wr.null /\ property_is_writeable(wr, attrno) >= 0
       THEN S_IRUGO \cup {"S_IWUSR"}
       ELSE S_IRUGO
  ELSE {}

\* the mode bits of the attribute; {} is mode 0, the attribute is not
\* created
power_supply_attr_is_visible(props, wr, attrno) ==
  LET mode == S_IRUGO
      hit(i) == props[i] = attrno
  IN IF attrno = POWER_SUPPLY_PROP_TYPE THEN mode
     ELSE IF \E i \in 1..Len(props) : hit(i)
     THEN LET i == CHOOSE i \in 1..Len(props) :
                     hit(i) /\ \A k \in 1..(i - 1) : ~hit(k)
          IN IF ~wr.null /\ property_is_writeable(wr, props[i]) > 0
             THEN mode \cup {"S_IWUSR"}
             ELSE mode
     ELSE {}

\* A write that arrives through the attribute file: the file layer
\* (fs/sysfs, fs/kernfs) calls the store handler only when the mode of the
\* attribute has a write bit, and fails the write itself otherwise.
sysfs_write(props, wr, off, buf, setrc, stack) ==
  IF "S_IWUSR" \notin power_supply_attr_is_visible(props, wr, off)
  THEN [ret |-> 0 - EACCES, set |-> <<>>, decoded |-> FALSE]
  ELSE LET r == power_supply_store_property(off, buf, setrc, stack)
       IN [ret |-> r.ret, set |-> r.set, decoded |-> TRUE]

----------------------------------------------------------------------------
(* power_supply_uevent, lines 450-507 *)

POWER_SUPPLY_ == <<"P","O","W","E","R","_","S","U","P","P","L","Y","_">>

\* psy->desc->name
desc_name == <<"b","a","t","t","e","r","y","0">>

\* kstruprdup, lines 433-448 (its allocation is a choice of the step)
kstruprdup(str) == strtoupper(str)

\* line = strchr(prop_buf, '\n'); if (line) *line = 0;  lines 487-489
RECURSIVE cut_at_newline(_)
cut_at_newline(s) ==
  IF s = <<>> \/ s[1] = NL THEN <<>>
  ELSE <<s[1]>> \o cut_at_newline(SubSeq(s, 2, Len(s)))

empty_env == [envp |-> <<>>, buflen |-> 0]

\* add_uevent_var (lib/kobject_uevent.c): the variable and its terminator
\* are appended when they fit the buffer, and -ENOMEM is returned when
\* they do not
add_uevent_var(env, text) ==
  IF env.buflen + Len(text) + 1 > UEVENT_BUFFER_SIZE
  THEN [ret |-> 0 - ENOMEM, env |-> env]
  ELSE [ret |-> 0,
        env |-> [envp |-> Append(env.envp, text),
                 buflen |-> env.buflen + Len(text) + 1]]

\* the j-th property in catalog order
uevent_attr_sorted(props, j) ==
  SortSeq(props, LAMBDA a, b : a < b)[j + 1]

\* attr = &power_supply_attrs[psy->desc->properties[j]], line 474
uevent_attr(props, j) == props[j + 1]

\* the test without -ENODATA
uevent_skips_enodev_only(ret) == ret = 0 - ENODEV

\* the test with -EAGAIN added
uevent_skips_eagain_too(ret) ==
  ret = 0 - ENODEV \/ ret = 0 - ENODATA \/ ret = 0 - EAGAIN

\* ret == -ENODEV || ret == -ENODATA, line 477
uevent_skips(ret) == ret = 0 - ENODEV \/ ret = 0 - ENODATA

\* the result of add_uevent_var not looked at
uevent_add_ignored(ret) == FALSE

\* if (ret) goto out;  lines 499-500
uevent_add_failed(ret) == ret # 0

\* One iteration of the loop, lines 471-500.  dup_ok: kstruprdup's
\* kmalloc succeeds.
uevent_iteration(env, off, type, g, ub, dup_ok) ==
  LET r == power_supply_show_property(off, type, g, ub)
  IN IF r.fault THEN [next |-> "oops", ret |-> r.ret, env |-> env]
     ELSE IF uevent_skips(r.ret)
     THEN [next |-> "loop", ret |-> 0, env |-> env]
     ELSE IF r.ret < 0
     THEN [next |-> "out", ret |-> r.ret, env |-> env]
     ELSE IF ~dup_ok
     THEN [next |-> "out", ret |-> 0 - ENOMEM, env |-> env]
     ELSE LET a == add_uevent_var(env,
                     POWER_SUPPLY_ \o kstruprdup(attr_name(off)) \o <<"=">>
                       \o cut_at_newline(r.buf))
          IN [next |-> IF uevent_add_failed(a.ret) THEN "out" ELSE "loop",
              ret |-> a.ret, env |-> a.env]

----------------------------------------------------------------------------
(* Inputs *)

EnumProps ==
  {POWER_SUPPLY_PROP_STATUS, POWER_SUPPLY_PROP_CHARGE_TYPE,
   POWER_SUPPLY_PROP_HEALTH, POWER_SUPPLY_PROP_TECHNOLOGY,
   POWER_SUPPLY_PROP_CAPACITY_LEVEL, POWER_SUPPLY_PROP_SCOPE}

TableOf(off) ==
  CASE off = POWER_SUPPLY_PROP_STATUS -> power_supply_status_text
    [] off = POWER_SUPPLY_PROP_CHARGE_TYPE -> power_supply_charge_type_text
    [] off = POWER_SUPPLY_PROP_HEALTH -> power_supply_health_text
    [] off = POWER_SUPPLY_PROP_TECHNOLOGY -> power_supply_technology_text
    [] off = POWER_SUPPLY_PROP_CAPACITY_LEVEL -> power_supply_capacity_level_text
    [] off = POWER_SUPPLY_PROP_TYPE -> power_supply_type_text
    [] off = POWER_SUPPLY_PROP_SCOPE -> power_supply_scope_text

\* the attributes the handlers are called on
AttrOffs ==
  EnumProps \cup
  {POWER_SUPPLY_PROP_TYPE, POWER_SUPPLY_PROP_PRESENT,
   POWER_SUPPLY_PROP_CAPACITY, POWER_SUPPLY_PROP_CHARGE_COUNTER_EXT,
   POWER_SUPPLY_PROP_MODEL_NAME}

\* the properties a device may declare
DeviceProps ==
  {POWER_SUPPLY_PROP_STATUS, POWER_SUPPLY_PROP_PRESENT,
   POWER_SUPPLY_PROP_TYPE, POWER_SUPPLY_PROP_CHARGE_COUNTER_EXT,
   POWER_SUPPLY_PROP_MODEL_NAME}

\* the attributes asked about: the above, and two no device declares
AskedProps ==
  DeviceProps \cup {POWER_SUPPLY_PROP_HEALTH, POWER_SUPPLY_PROP_CAPACITY}

\* the arrays a device may declare: no property twice, in any order
PropLists ==
  {s \in UNION {[1..n -> DeviceProps] : n \in 0..MaxProps} :
     \A a, b \in 1..Len(s) : a # b => s[a] # s[b]}

\* the values a getter may store for a property
GetValues(off) ==
  IF off \in EnumProps THEN (0 - 1)..ARRAY_SIZE(TableOf(off))
  ELSE IF off = POWER_SUPPLY_PROP_CHARGE_COUNTER_EXT
  THEN {0, 0 - 1, INT_MAX, INT_MAX + 1, INT_MIN - 1, LONG_MIN, LONG_MAX}
  ELSE IF off >= POWER_SUPPLY_PROP_MODEL_NAME
  THEN {<<"X","1">>, <<>>}
  ELSE {0, 1, 0 - 1, INT_MIN, INT_MAX}

GetErrors == {0 - ENODATA, 0 - ENODEV, 0 - EAGAIN, 0 - EINVAL}

\* what power_supply_get_property may return for a property, line 88;
\* the type attribute is read without it
GetOutcomes(off) ==
  IF off = POWER_SUPPLY_PROP_TYPE THEN {[rc |-> 0, val |-> 0]}
  ELSE {[rc |-> 0, val |-> v] : v \in GetValues(off)}
       \cup {[rc |-> e, val |-> 0] : e \in GetErrors}

\* what an index outside a table may do
UBOutcomes ==
  {[fault |-> TRUE, text |-> <<>>],
   [fault |-> FALSE, text |-> <<"?">>],
   [fault |-> FALSE, text |-> <<"U","n","k","n","o","w","n">>]}

\* psy->desc->type: the classes of the table and two values outside it
TypeValues == (0 - 1)..ARRAY_SIZE(power_supply_type_text)

\* what power_supply_set_property may return, line 180
SetOutcomes == {0, 0 - EINVAL}

\* the word of the stack that value.intval does not cover
StackWords == {0, 0 - 1, 1}

Bogus == <<"b","o","g","u","s">>

NumberTexts ==
  {sprintf_d(n) : n \in {INT_MIN, INT_MAX, INT_MAX + 1, LONG_MIN, LONG_MAX,
                         LONG_MAX + 1, LONG_MIN - 1}}
  \cup {sprintf_d(INT_MAX) \o <<NL>>, <<"+","1">>, <<"-">>, <<"1","2","x">>,
        <<"0","1">>, Bogus, <<>>, <<NL>>}

\* the texts written to an attribute
Texts(off) ==
  NumberTexts \cup
  (IF off \in EnumProps \cup {POWER_SUPPLY_PROP_TYPE}
   THEN LET t == TableOf(off)
        IN UNION {{t[i], strtolower(t[i]), strtoupper(t[i]),
                   t[i] \o <<NL>>, strtoupper(t[i]) \o <<NL>>,
                   SubSeq(t[i], 1, Len(t[i]) - 1),
                   sprintf_d(i - 1), sprintf_d(i - 1) \o <<NL>>}
                  : i \in 1..Len(t)}
           \cup {sprintf_d(Len(t)), sprintf_d(0 - 1)}
   ELSE {sprintf_d(0), sprintf_d(1), sprintf_d(0 - 1)})

\* the texts written in the specification of the device's attributes
FewTexts == {sprintf_d(1), <<"U","n","k","n","o","w","n">>, Bogus}

WriteableAnswers(props) == [Range(props) -> {0 - 1, 0, 1}]

NoAnswers(props) == [p \in Range(props) |-> 0]

----------------------------------------------------------------------------
(* The state machine *)

NoCall == [op |-> "none"]

UeventIdle ==
  /\ u_pc = "idle"
  /\ u_j = 0
  /\ u_ret = 0
  /\ u_env = empty_env
  /\ u_reads = <<>>

NoPredicate(props) == [null |-> TRUE, ans |-> NoAnswers(props)]

Predicates(props) ==
  {NoPredicate(props)}
  \cup {[null |-> FALSE, ans |-> a] : a \in WriteableAnswers(props)}

\* a registered device with its declared properties and its predicate
Init ==
  /\ registered = TRUE
  /\ properties \in PropLists
  /\ desc_type = 1
  /\ is_writeable \in Predicates(properties)
  /\ last = NoCall
  /\ UeventIdle

\* the attribute group asks for the mode of an attribute
AttrIsVisible ==
  \E attrno \in AskedProps :
    /\ last = NoCall
    /\ last' = [op |-> "is_visible", off |-> attrno,
                mode |-> power_supply_attr_is_visible(properties,
                                                      is_writeable, attrno)]
    /\ UNCHANGED <<registered, properties, desc_type, is_writeable,
                   u_pc, u_j, u_ret, u_env, u_reads>>

\* a text is written to the file of an attribute
SysfsWrite ==
  \E off \in AskedProps, buf \in FewTexts, setrc \in SetOutcomes :
    /\ last = NoCall
    /\ last' = [op |-> "write", off |-> off, buf |-> buf, setrc |-> setrc,
                r |-> sysfs_write(properties, is_writeable, off, buf,
                                  setrc, 0)]
    /\ UNCHANGED <<registered, properties, desc_type, is_writeable,
                   u_pc, u_j, u_ret, u_env, u_reads>>

\* the driver changes what its predicate answers for a property
DriverSetsWriteable ==
  \E p \in Range(properties), a \in {0 - 1, 0, 1} :
    /\ last = NoCall
    /\ ~is_writeable.null
    /\ is_writeable.ans[p] # a
    /\ is_writeable' = [is_writeable EXCEPT !.ans[p] = a]
    /\ UNCHANGED <<registered, properties, desc_type, last,
                   u_pc, u_j, u_ret, u_env, u_reads>>

\* the caller takes the result of the call; calls do not overlap
Return ==
  /\ last # NoCall
  /\ last' = NoCall
  /\ UNCHANGED <<registered, properties, desc_type, is_writeable,
                 u_pc, u_j, u_ret, u_env, u_reads>>

Next == AttrIsVisible \/ SysfsWrite \/ DriverSetsWriteable \/ Return

Spec == Init /\ [][Next]_vars

----------------------------------------------------------------------------
(* The handlers on their own: every attribute, every value and text *)

InitAttr ==
  /\ registered = TRUE
  /\ properties = <<>>
  /\ desc_type \in TypeValues
  /\ is_writeable = NoPredicate(<<>>)
  /\ last = NoCall
  /\ UeventIdle

ShowProperty ==
  \E off \in AttrOffs :
    \E g \in GetOutcomes(off), ub \in UBOutcomes :
      /\ last = NoCall
      /\ last' = [op |-> "show", off |-> off, g |-> g,
                  val |-> IF off = POWER_SUPPLY_PROP_TYPE
                          THEN desc_type ELSE g.val,
                  r |-> power_supply_show_property(off, desc_type, g, ub)]
      /\ UNCHANGED <<registered, properties, desc_type, is_writeable,
                     u_pc, u_j, u_ret, u_env, u_reads>>

StoreProperty ==
  \E off \in AttrOffs :
    \E buf \in Texts(off), setrc \in SetOutcomes, stack \in StackWords :
      /\ last = NoCall
      /\ last' = [op |-> "store", off |-> off, buf |-> buf,
                  setrc |-> setrc, replay |-> FALSE, src |-> NoCall,
                  r |-> power_supply_store_property(off, buf, setrc, stack)]
      /\ UNCHANGED <<registered, properties, desc_type, is_writeable,
                     u_pc, u_j, u_ret, u_env, u_reads>>

\* a writer writes back the text it has just read from the attribute
ReplayStore ==
  \E setrc \in SetOutcomes, stack \in StackWords :
    /\ last.op = "show"
    /\ last.r.ret > 0
    /\ last' = [op |-> "store", off |-> last.off, buf |-> last.r.buf,
                setrc |-> setrc, replay |-> TRUE, src |-> last,
                r |-> power_supply_store_property(last.off, last.r.buf,
                                                  setrc, stack)]
    /\ UNCHANGED <<registered, properties, desc_type, is_writeable,
                   u_pc, u_j, u_ret, u_env, u_reads>>

NextAttr == ShowProperty \/ StoreProperty \/ ReplayStore \/ Return

SpecAttr == InitAttr /\ [][NextAttr]_vars

----------------------------------------------------------------------------
(* power_supply_uevent, one step per loop iteration *)

InitUevent ==
  /\ registered \in BOOLEAN
  /\ properties \in PropLists
  /\ desc_type \in {1, ARRAY_SIZE(power_supply_type_text)}
  /\ is_writeable = NoPredicate(properties)
  /\ last = NoCall
  /\ UeventIdle

\* lines 450-468: the name variable and the page for prop_buf
UeventBegin ==
  \E page_ok \in BOOLEAN :
    LET a == add_uevent_var(empty_env, POWER_SUPPLY_ \o
                 <<"N","A","M","E","=">> \o desc_name)
    IN /\ u_pc \in {"idle", "done", "oops"}
       /\ u_j' = 0
       /\ u_reads' = <<>>
       /\ IF ~registered
          THEN u_pc' = "done" /\ u_ret' = 0 /\ u_env' = empty_env
          ELSE IF a.ret # 0
          THEN u_pc' = "done" /\ u_ret' = a.ret /\ u_env' = a.env
          ELSE IF ~page_ok
          THEN u_pc' = "done" /\ u_ret' = 0 - ENOMEM /\ u_env' = a.env
          ELSE u_pc' = "loop" /\ u_ret' = a.ret /\ u_env' = a.env
       /\ UNCHANGED <<registered, properties, desc_type, is_writeable, last>>

\* lines 470-501: one iteration
UeventIteration ==
  /\ u_pc = "loop"
  /\ u_j < Len(properties)
  /\ LET off == uevent_attr(properties, u_j)
     IN \E g \in GetOutcomes(off), ub \in UBOutcomes, dup_ok \in BOOLEAN :
          LET s == uevent_iteration(u_env, off, desc_type, g, ub, dup_ok)
          IN /\ u_pc' = s.next
             /\ u_ret' = s.ret
             /\ u_env' = s.env
             /\ u_j' = IF s.next = "loop" THEN u_j + 1 ELSE u_j
             /\ u_reads' = Append(u_reads,
                  [off |-> off, g |-> g, dup_ok |-> dup_ok,
                   r |-> power_supply_show_property(off, desc_type, g, ub)])
  /\ UNCHANGED <<registered, properties, desc_type, is_writeable, last>>

\* lines 503-506: free_page and return ret
UeventOut ==
  /\ \/ u_pc = "out"
     \/ u_pc = "loop" /\ u_j >= Len(properties)
  /\ u_pc' = "done"
  /\ UNCHANGED <<registered, properties, desc_type, is_writeable, last,
                 u_j, u_ret, u_env, u_reads>>

NextUevent == UeventBegin \/ UeventIteration \/ UeventOut

SpecUevent == InitUevent /\ [][NextUevent]_vars

----------------------------------------------------------------------------
(* Properties of the visibility callback and of writes through the file *)

Visibility(mode) ==
  IF mode = {} THEN "None"
  ELSE IF "S_IWUSR" \in mode THEN "ReadWrite"
  ELSE "ReadOnly"

\* C5: the mode of an attribute is read-only for the type attribute
\* whatever the device declares or answers, no mode at all for any other
\* attribute the device does not declare, read-write for a declared one
\* when the device has a predicate and it answers more than zero, and
\* read-only for a declared one otherwise; it is computed from the device
\* as it is at the call.
C5_Visibility ==
  last.op = "is_visible" =>
    /\ last.mode \in {{}, S_IRUGO, S_IRUGO \cup {"S_IWUSR"}}
    /\ Visibility(last.mode) =
         IF last.off = POWER_SUPPLY_PROP_TYPE THEN "ReadOnly"
         ELSE IF last.off \notin Range(properties) THEN "None"
         ELSE IF ~is_writeable.null /\ is_writeable.ans[last.off] > 0
         THEN "ReadWrite"
         ELSE "ReadOnly"

\* a declared attribute other than type is found read-write
C5_Witness ==
  /\ last.op = "is_visible"
  /\ last.off # POWER_SUPPLY_PROP_TYPE
  /\ last.off \in Range(properties)
  /\ is_writeable.ans[last.off] = 1
  /\ last.mode = S_IRUGO \cup {"S_IWUSR"}

----------------------------------------------------------------------------
(* Properties of the show and store handlers *)

IsBase10(s) ==
  LET t == StripNL(s)
      u == IF Len(t) > 0 /\ t[1] \in {"+", "-"} THEN Tail(t) ELSE t
  IN Len(u) > 0 /\ \A i \in 1..Len(u) : IsDigit(u[i])

NamesEntry(off, s) ==
  /\ off \in EnumProps
  /\ \E i \in 1..Len(TableOf(off)) :
       strtolower(StripNL(s)) = strtolower(TableOf(off)[i])

Passed(call) ==
  IF call.psp = POWER_SUPPLY_PROP_CHARGE_COUNTER_EXT
  THEN Int64Of(call.val)
  ELSE call.val.intval

\* C7: when the text that show produced for a value v of an integer, a
\* 64-bit integer or an enum attribute (v inside the table) is written
\* back, the setter is called with v.  Stated for the 64-bit attribute,
\* charge_counter_ext, whose value show prints from int64val.
C7_RoundTrip64 ==
  ( /\ last.op = "store"
    /\ last.replay
    /\ last.off = POWER_SUPPLY_PROP_CHARGE_COUNTER_EXT )
  => /\ Len(last.r.set) = 1
     /\ Passed(last.r.set[1]) = last.src.val

\* the same for the type attribute, which show prints from its table
RoundTripType ==
  ( /\ last.op = "store"
    /\ last.replay
    /\ last.off = POWER_SUPPLY_PROP_TYPE
    /\ last.src.r.idx >= 0 /\ last.src.r.idx < last.src.r.len )
  => /\ Len(last.r.set) = 1
     /\ Passed(last.r.set[1]) = last.src.val

\* the part of C7 that the handlers keep: integers and the six enum
\* attributes with a case in the switch of the store handler
RoundTripIntAndEnum ==
  ( /\ last.op = "store"
    /\ last.replay
    /\ last.off < POWER_SUPPLY_PROP_MODEL_NAME
    /\ last.off \notin {POWER_SUPPLY_PROP_TYPE,
                        POWER_SUPPLY_PROP_CHARGE_COUNTER_EXT}
    /\ last.src.r.lookup =>
         (last.src.r.idx >= 0 /\ last.src.r.idx < last.src.r.len) )
  => /\ Len(last.r.set) = 1
     /\ Passed(last.r.set[1]) = last.src.val

\* C9: a text that names no entry of the attribute's table and is no
\* decimal integer is refused with -EINVAL without a call of the setter;
\* the setter is called at most once, its failure is returned as it is,
\* and no write succeeds without its call.
C9_WriteAtomic ==
  last.op = "store" =>
    /\ Len(last.r.set) <= 1
    /\ (~NamesEntry(last.off, last.buf) /\ ~IsBase10(last.buf))
         => (last.r.ret = 0 - EINVAL /\ last.r.set = <<>>)
    /\ (Len(last.r.set) = 1 /\ last.setrc < 0) => last.r.ret = last.setrc
    /\ last.r.set = <<>> => last.r.ret < 0

\* "bogus" written to present
C9_Witness ==
  /\ last.op = "store"
  /\ last.off = POWER_SUPPLY_PROP_PRESENT
  /\ last.buf = Bogus
  /\ last.r.ret = 0 - EINVAL
  /\ last.r.set = <<>>

\* C10: show indexes a table only inside it.
C10_IndexInBounds ==
  (last.op = "show" /\ last.r.lookup) =>
    (last.r.idx >= 0 /\ last.r.idx < last.r.len)

----------------------------------------------------------------------------
(* Properties of power_supply_uevent *)

NameLine == POWER_SUPPLY_ \o <<"N","A","M","E","=">> \o desc_name

\* the start of the variable of a property
PrefixOf(off) == POWER_SUPPLY_ \o strtoupper(attr_name(off)) \o <<"=">>

IsPrefix(p, s) == Len(p) <= Len(s) /\ SubSeq(s, 1, Len(p)) = p

\* the environment holds a variable of the property
HasPair(off) ==
  \E k \in 1..Len(u_env.envp) : IsPrefix(PrefixOf(off), u_env.envp[k])

\* the variable that a successful read makes
LineOf(rd) == PrefixOf(rd.off) \o StripNL(rd.r.buf)

IsSkipped(rd) == rd.r.ret \in {0 - ENODATA, 0 - ENODEV}
Rendered(rd) == rd.r.ret >= 0 /\ ~rd.r.fault

LinesOf(rds) == [k \in 1..Len(rds) |-> LineOf(rds[k])]

RECURSIVE Bytes(_)
Bytes(lines) ==
  IF lines = <<>> THEN 0 ELSE Len(Head(lines)) + 1 + Bytes(Tail(lines))

\* the variables of the whole call, had the buffer no end
WouldBe == <<NameLine>> \o LinesOf(SelectSeq(u_reads, Rendered))

\* the property of each variable after the name, in the order emitted
Emitted ==
  [k \in 1..(Len(u_env.envp) - 1) |->
     CHOOSE off \in DeviceProps : IsPrefix(PrefixOf(off), u_env.envp[k + 1])]

PosOf(off) == CHOOSE i \in 1..Len(properties) : properties[i] = off

\* C1: a property whose read returns -ENODATA or -ENODEV gets no
\* variable and does not end the call: the loop goes on to the next
\* property, and when every other read succeeds and every variable fits,
\* the call returns 0 with the variables of all the other properties.
C1_SkipsAbsent ==
  /\ \A i \in 1..Len(u_reads) :
       IsSkipped(u_reads[i]) =>
         /\ ~HasPair(u_reads[i].off)
         /\ i = Len(u_reads) =>
              (u_pc \in {"loop", "done"} /\ u_j = i /\ u_ret = 0)
  /\ ( /\ u_pc = "done"
       /\ \E i \in 1..Len(u_reads) : IsSkipped(u_reads[i])
       /\ \A i \in 1..Len(u_reads) :
            \/ IsSkipped(u_reads[i])
            \/ Rendered(u_reads[i]) /\ u_reads[i].dup_ok
       /\ Bytes(WouldBe) <= UEVENT_BUFFER_SIZE )
     => /\ u_ret = 0
        /\ Len(u_reads) = Len(properties)
        /\ u_env.envp = WouldBe

\* the first property is skipped and the second is in the result
C1_Witness ==
  /\ u_pc = "done"
  /\ u_ret = 0
  /\ Len(u_reads) = 2
  /\ u_reads[1].r.ret = 0 - ENODATA
  /\ u_reads[2].r.ret > 0
  /\ u_env.envp = <<NameLine, LineOf(u_reads[2])>>

\* a read that was rendered and named but whose variable is not there:
\* add_uevent_var found no room for it
Overflowed(rd) == Rendered(rd) /\ rd.dup_ok /\ ~HasPair(rd.off)

\* C2 as claimed: the variables never take more bytes than the buffer,
\* and a call that finds no room for a variable returns success with a
\* strict prefix of the full sequence.
C2_PartialIsSuccess ==
  /\ Bytes(u_env.envp) <= UEVENT_BUFFER_SIZE
  /\ (u_pc = "done" /\ \E i \in 1..Len(u_reads) : Overflowed(u_reads[i]))
       => /\ u_ret = 0
          /\ Len(u_env.envp) < Len(WouldBe)
          /\ u_env.envp = SubSeq(WouldBe, 1, Len(u_env.envp))

\* C2 as amended: the variables never take more bytes than the buffer;
\* the read that finds no room is the last one of the call, which ends
\* with -ENOMEM; what the environment holds is a prefix of the full
\* sequence, a strict one after such a read.
C2_StopsWithENOMEM ==
  /\ Bytes(u_env.envp) <= UEVENT_BUFFER_SIZE
  /\ u_env.buflen = Bytes(u_env.envp)
  /\ Len(u_env.envp) <= Len(WouldBe) \/ ~registered
  /\ registered => u_env.envp = SubSeq(WouldBe, 1, Len(u_env.envp))
  /\ \A i \in 1..Len(u_reads) :
       Overflowed(u_reads[i]) =>
         /\ i = Len(u_reads)
         /\ u_pc \in {"out", "done"}
         /\ u_ret = 0 - ENOMEM
         /\ Len(u_env.envp) < Len(WouldBe)

\* the second property finds no room after the first
C2_Witness ==
  /\ u_pc = "done"
  /\ u_ret = 0 - ENOMEM
  /\ Len(u_reads) = 2
  /\ Overflowed(u_reads[2])
  /\ u_env.envp = <<NameLine, LineOf(u_reads[1])>>

\* C3 as claimed: the variables come in catalog order, whatever the order
\* of the device's array.
C3_CatalogOrder ==
  \A a, b \in 1..(Len(u_env.envp) - 1) : a < b => Emitted[a] < Emitted[b]

\* C3 as amended: the variables come in the order of the device's array.
C3_DeclaredOrder ==
  /\ \A k \in 1..(Len(u_env.envp) - 1) : Emitted[k] \in Range(properties)
  /\ \A a, b \in 1..(Len(u_env.envp) - 1) :
       a < b => PosOf(Emitted[a]) < PosOf(Emitted[b])
  /\ \A i \in 1..Len(u_reads) : u_reads[i].off = properties[i]

\* two variables, the later one earlier in the catalog
C3_Witness ==
  /\ Len(u_env.envp) = 3
  /\ Emitted[1] > Emitted[2]
  /\ properties[1] = Emitted[1]
  /\ properties[2] = Emitted[2]

\* C8 as claimed: a read that returns -EAGAIN is skipped like an absent
\* device: no variable, the loop goes on, the call does not return it.
C8_TransientSkipped ==
  \A i \in 1..Len(u_reads) :
    u_reads[i].r.ret = 0 - EAGAIN =>
      /\ ~HasPair(u_reads[i].off)
      /\ i = Len(u_reads) =>
           (u_pc \in {"loop", "done"} /\ u_j = i /\ u_ret = 0)

\* C8 as amended: show logs no error for -EAGAIN, but the read ends the
\* call: no variable for the property, no further read, -EAGAIN returned.
C8_TransientAborts ==
  \A i \in 1..Len(u_reads) :
    u_reads[i].r.ret = 0 - EAGAIN =>
      /\ u_reads[i].r.log = "none"
      /\ ~HasPair(u_reads[i].off)
      /\ i = Len(u_reads)
      /\ u_j = i - 1
      /\ u_pc \in {"out", "done"}
      /\ u_ret = 0 - EAGAIN

\* the second read returns -EAGAIN after the first was added
C8_Witness ==
  /\ u_pc = "done"
  /\ u_ret = 0 - EAGAIN
  /\ Len(u_reads) = 2
  /\ u_reads[2].r.ret = 0 - EAGAIN
  /\ u_env.envp = <<NameLine, LineOf(u_reads[1])>>

====
